---------------------------- MODULE Spec2Model ----------------------------
(***************************************************************************)
(* A model of the hh.ru vacancy loader: the API client's page loop         *)
(* (api_manager.py), the record normalizer (vacancy_manager.py), the       *)
(* PostgreSQL persistence layer (db_manager.py, query_manager.py) and the  *)
(* orchestrator (main.py).                                                 *)
(*                                                                         *)
(* Eight specifications share the variables:                               *)
(*   Spec       the store operations and load_companies_and_vacancies      *)
(*   SpecRerun  load_companies_and_vacancies run repeatedly against one    *)
(*              fixed set of API responses                                 *)
(*   SpecPages  get_all_vacancies_for_employer against an arbitrary server *)
(*   SpecPagesFair  SpecPages where every request is answered              *)
(*   SpecParse  parse_from_api / extract_vacancies on bounded raw inputs   *)
(*   SpecQuery  the schema operations, the writes and the read queries of  *)
(*              the persistence layer against a server that can fail       *)
(*   SpecApi    the three getters of the API client                        *)
(*   SpecFilter the in-memory filters on extracted records                 *)
(***************************************************************************)
EXTENDS Integers, Sequences, FiniteSets, TLC

(***************************************************************************)
(* Python / JSON values.                                                   *)
(*                                                                         *)
(* Every scalar is a record [k, i, s]: k is the kind, i the integer of an  *)
(* "int", s the characters of a "str" (a sequence of one-character         *)
(* strings).  Kind "null" is JSON null / Python None; kind "absent" is a   *)
(* key the dict does not have (it exists only inside raw dicts).           *)
(***************************************************************************)
None == [k |-> "null", i |-> 0, s |-> <<>>]

Absent == [k |-> "absent", i |-> 0, s |-> <<>>]

IntV(n) == [k |-> "int", i |-> n, s |-> <<>>]

StrV(chars) == [k |-> "str", i |-> 0, s |-> chars]

\* dict.get(key): None when the key is missing, the stored value otherwise.
Get(v) == IF v.k = "absent" THEN None ELSE v

\* dict.get(key, default): the default only when the key is missing.
GetDefault(v, default) == IF v.k = "absent" THEN default ELSE v

Digits == {"0", "1", "2", "3", "4", "5", "6", "7", "8", "9"}

DigitVal(c) ==
    CASE c = "0" -> 0 [] c = "1" -> 1 [] c = "2" -> 2 [] c = "3" -> 3
      [] c = "4" -> 4 [] c = "5" -> 5 [] c = "6" -> 6 [] c = "7" -> 7
      [] c = "8" -> 8 [] c = "9" -> 9

RECURSIVE DecimalValue(_)
DecimalValue(chars) ==
    IF chars = <<>> THEN 0
    ELSE 10 * DecimalValue(SubSeq(chars, 1, Len(chars) - 1))
         + DigitVal(chars[Len(chars)])

\* Python's int(x): an int is returned as is, a string of decimal digits is
\* parsed, None raises TypeError, any other string raises ValueError.
PyInt(v) ==
    CASE v.k = "int" -> [exc |-> "none", n |-> v.i]
      [] v.k = "str" ->
            IF v.s # <<>> /\ \A j \in 1..Len(v.s) : v.s[j] \in Digits
            THEN [exc |-> "none", n |-> DecimalValue(v.s)]
            ELSE [exc |-> "ValueError", n |-> 0]
      [] OTHER -> [exc |-> "TypeError", n |-> 0]

(***************************************************************************)
(* Raw vacancy objects of the API.  A nested object is [k, f]: k is        *)
(* "absent" (no such key), "null" or "obj", and f the one member the       *)
(* normalizer reads ("id" of employer, "name" of area, experience,         *)
(* employment).  The salary object carries its three members.              *)
(***************************************************************************)
NestAbsent == [k |-> "absent", f |-> Absent]

NestNull == [k |-> "null", f |-> Absent]

NestObj(member) == [k |-> "obj", f |-> member]

SalaryAbsent == [k |-> "absent", from |-> Absent, to |-> Absent, currency |-> Absent]

SalaryNull == [k |-> "null", from |-> Absent, to |-> Absent, currency |-> Absent]

SalaryObj(lo, hi, cur) == [k |-> "obj", from |-> lo, to |-> hi, currency |-> cur]

\* vacancy_data.get(key, {}).get(member): the default {} covers a missing key
\* only; a key holding null yields None, and None.get raises AttributeError.
NestedGet(nest) ==
    CASE nest.k = "absent" -> [exc |-> "none", v |-> None]
      [] nest.k = "null" -> [exc |-> "AttributeError", v |-> None]
      [] OTHER -> [exc |-> "none", v |-> Get(nest.f)]

NoVacancy ==
    [vacancy_id |-> 0, company_id |-> 0, name |-> None, salary_from |-> None,
     salary_to |-> None, currency |-> None, area |-> None, experience |-> None,
     employment_type |-> None, description |-> None, url |-> None,
     published_at |-> None]

Raise(e) == [exc |-> e, vacancy |-> NoVacancy]

\* Vacancy.parse_from_api: the statements in source order, so the first
\* exception raised is the one the caller sees.
parse_from_api(vacancy_data) ==
    LET employer == NestedGet(vacancy_data.employer)
        area == NestedGet(vacancy_data.area)
        experience == NestedGet(vacancy_data.experience)
        employment_type == NestedGet(vacancy_data.employment)
        salary == vacancy_data.salary
        vacancy_id == PyInt(Get(vacancy_data.id))
        company_id == PyInt(employer.v)
    IN  IF employer.exc # "none" THEN Raise(employer.exc)
        ELSE IF area.exc # "none" THEN Raise(area.exc)
        ELSE IF experience.exc # "none" THEN Raise(experience.exc)
        ELSE IF employment_type.exc # "none" THEN Raise(employment_type.exc)
        ELSE IF vacancy_id.exc # "none" THEN Raise(vacancy_id.exc)
        ELSE IF company_id.exc # "none" THEN Raise(company_id.exc)
        ELSE [exc |-> "none",
              vacancy |->
                [vacancy_id |-> vacancy_id.n,
                 company_id |-> company_id.n,
                 name |-> Get(vacancy_data.name),
                 salary_from |-> IF salary.k = "obj" THEN Get(salary.from) ELSE None,
                 salary_to |-> IF salary.k = "obj" THEN Get(salary.to) ELSE None,
                 currency |-> IF salary.k = "obj" THEN Get(salary.currency) ELSE None,
                 area |-> area.v,
                 experience |-> experience.v,
                 employment_type |-> employment_type.v,
                 description |-> GetDefault(vacancy_data.description, StrV(<<>>)),
                 url |-> Get(vacancy_data.alternate_url),
                 published_at |-> Get(vacancy_data.published_at)]]

\* The exceptions extract_vacancies catches per item.
CaughtByExtract == {"KeyError", "ValueError", "TypeError"}

\* VacancyManager.extract_vacancies: a caught failure skips the item, any
\* other exception leaves the loop and reaches the caller.
RECURSIVE extract_loop(_, _, _)
extract_loop(vacancies_data, j, vacancies) ==
    IF j > Len(vacancies_data) THEN [exc |-> "none", vacancies |-> vacancies]
    ELSE LET r == parse_from_api(vacancies_data[j])
         IN  IF r.exc = "none"
             THEN extract_loop(vacancies_data, j + 1, Append(vacancies, r.vacancy))
             ELSE IF r.exc \in CaughtByExtract
             THEN extract_loop(vacancies_data, j + 1, vacancies)
             ELSE [exc |-> r.exc, vacancies |-> <<>>]

extract_vacancies(vacancies_data) == extract_loop(vacancies_data, 1, <<>>)

(***************************************************************************)
(* Bounded raw inputs.                                                     *)
(***************************************************************************)
Raw(id, employer, name, salary, area, experience, employment, description, alternate_url, published_at) ==
    [id |-> id, employer |-> employer, name |-> name, salary |-> salary,
     area |-> area, experience |-> experience, employment |-> employment,
     description |-> description, alternate_url |-> alternate_url,
     published_at |-> published_at]

IdOptions == {Absent, None, IntV(1), StrV(<<"1", "2">>), StrV(<<"x">>)}

EmployerOptions ==
    {NestAbsent, NestNull, NestObj(Absent), NestObj(IntV(1)), NestObj(StrV(<<"2">>))}

NameOptions == {Absent, None, StrV(<<"D", "e", "v">>)}

SalaryOptions ==
    {SalaryAbsent, SalaryNull, SalaryObj(IntV(100), None, StrV(<<"R", "U", "R">>))}

NestOptions == {NestAbsent, NestNull, NestObj(StrV(<<"n">>))}

DescriptionOptions == {Absent, None, StrV(<<"t">>)}

UrlOptions == {Absent, StrV(<<"u">>)}

\* Every combination of the options: the inputs of single parse_from_api calls.
RawVacancies ==
    {Raw(id, em, nm, sa, ar, ex, et, de, ur, Absent) :
        id \in IdOptions, em \in EmployerOptions, nm \in NameOptions,
        sa \in SalaryOptions, ar \in NestOptions, ex \in NestOptions,
        et \in NestOptions, de \in DescriptionOptions, ur \in UrlOptions}

\* A complete vacancy of employer e with identifier id.
GoodRaw(id, e) ==
    Raw(id, NestObj(IntV(e)), StrV(<<"D", "e", "v">>),
        SalaryObj(IntV(100), None, StrV(<<"R", "U", "R">>)),
        NestObj(StrV(<<"n">>)), NestObj(StrV(<<"n">>)), NestObj(StrV(<<"n">>)),
        StrV(<<"t">>), StrV(<<"u">>), StrV(<<"d">>))

\* A vacancy with only its identifiers: every optional key is missing.
BareRaw(id, e) ==
    Raw(id, NestObj(IntV(e)), StrV(<<"Q", "A">>), SalaryAbsent, NestAbsent,
        NestAbsent, NestAbsent, Absent, Absent, Absent)

\* The items of the lists extract_vacancies is applied to: two good items,
\* one per exception parse_from_api can raise, and one without a name.
RawSamples ==
    {GoodRaw(IntV(1), 1),
     BareRaw(StrV(<<"1", "2">>), 2),
     [GoodRaw(IntV(1), 1) EXCEPT !.id = Absent],
     [GoodRaw(IntV(1), 1) EXCEPT !.id = StrV(<<"x">>)],
     [GoodRaw(IntV(1), 1) EXCEPT !.employment = NestNull],
     [BareRaw(IntV(1), 1) EXCEPT !.name = Absent]}

MaxLen == 3

RECURSIVE ListsOver(_, _)
ListsOver(S, n) ==
    IF n = 0 THEN {<<>>}
    ELSE LET shorter == ListsOver(S, n - 1)
         IN  shorter \cup {Append(l, x) : l \in {m \in shorter : Len(m) = n - 1}, x \in S}

(***************************************************************************)
(* The API client's page loop (HeadHunterAPI.get_all_vacancies_for_employer).*)
(*                                                                         *)
(* A response of get_employer_vacancies is [k, items, pages]: k = "null"   *)
(* is the None a failed request returns (network error, non-2xx status,    *)
(* timeout); otherwise items is [k, l] (the "items" key missing, or a      *)
(* list) and pages an integer or Absent (no "pages" key).                  *)
(***************************************************************************)
ItemsAbsent == [k |-> "absent", l |-> <<>>]

ItemsList(l) == [k |-> "list", l |-> l]

RequestFailed == [k |-> "null", items |-> ItemsAbsent, pages |-> Absent]

PageData(items, pages) == [k |-> "obj", items |-> items, pages |-> pages]

\* data.get("items", [])
ItemsOf(data) == IF data.items.k = "absent" THEN <<>> ELSE data.items.l

\* data.get("pages", 0)
PagesOf(data) == GetDefault(data.pages, IntV(0)).i

\* A mutant of LastPage: the loop runs until page reaches pages.
LastPage_off_by_one(p, pages) == p >= pages

\* The loop's exit test after a successful page.
LastPage(p, pages) == p >= pages - 1

\* A mutant of AfterPage: a failed request throws the partial result away.
AfterPage_drops_partial(p, acc, data) ==
    IF data.k = "null" THEN [pc |-> "returned", page |-> p, all_vacancies |-> <<>>]
    ELSE IF LastPage(p, PagesOf(data))
         THEN [pc |-> "returned", page |-> p, all_vacancies |-> acc \o ItemsOf(data)]
         ELSE [pc |-> "loop", page |-> p + 1, all_vacancies |-> acc \o ItemsOf(data)]

\* A mutant of AfterPage: page += 1 is missing.
AfterPage_same_page(p, acc, data) ==
    IF data.k = "null" THEN [pc |-> "returned", page |-> p, all_vacancies |-> acc]
    ELSE IF LastPage(p, PagesOf(data))
         THEN [pc |-> "returned", page |-> p, all_vacancies |-> acc \o ItemsOf(data)]
         ELSE [pc |-> "loop", page |-> p, all_vacancies |-> acc \o ItemsOf(data)]

\* One iteration of the while loop, given the response to the request for
\* page p: the locals after it, and whether the loop was left.
AfterPage(p, acc, data) ==
    IF data.k = "null" THEN [pc |-> "returned", page |-> p, all_vacancies |-> acc]
    ELSE IF LastPage(p, PagesOf(data))
         THEN [pc |-> "returned", page |-> p, all_vacancies |-> acc \o ItemsOf(data)]
         ELSE [pc |-> "loop", page |-> p + 1, all_vacancies |-> acc \o ItemsOf(data)]

\* The largest page count a modelled server reports.
MaxPages == 3

ItemA == GoodRaw(IntV(1), 1)

ItemB == BareRaw(StrV(<<"1", "2">>), 2)

PageItemOptions == {ItemsAbsent, ItemsList(<<>>), ItemsList(<<ItemA>>), ItemsList(<<ItemB, ItemA>>)}

PagesOptions == {Absent} \cup {IntV(n) : n \in -1..MaxPages}

PageResponses ==
    {RequestFailed} \cup {PageData(it, pg) : it \in PageItemOptions, pg \in PagesOptions}

(***************************************************************************)
(* The three getters of HeadHunterAPI.  What happens to a request is its   *)
(* outcome: "ok" (a 2xx response with a JSON body), "connection_error",    *)
(* "timeout", "http_error" (raise_for_status on a non-2xx status) or       *)
(* "bad_body" (a 2xx response whose body is not JSON).  The error          *)
(* response.json() raises on a bad body is a RequestException in some      *)
(* versions of the HTTP library and a plain ValueError in others.          *)
(***************************************************************************)
HttpFailures == {"connection_error", "timeout", "http_error"}

HttpOutcomes == {"ok", "bad_body"} \cup HttpFailures

\* A mutant of Exchange: only connection errors and timeouts are caught.
Exchange_raises_status(outcome, payload, none, json_error_caught) ==
    IF outcome = "ok" THEN [ret |-> payload, exc |-> "none", requests |-> 1]
    ELSE IF outcome \in {"connection_error", "timeout"}
    THEN [ret |-> none, exc |-> "none", requests |-> 1]
    ELSE IF outcome = "http_error" THEN [ret |-> none, exc |-> "HTTPError", requests |-> 1]
    ELSE IF json_error_caught THEN [ret |-> none, exc |-> "none", requests |-> 1]
    ELSE [ret |-> none, exc |-> "ValueError", requests |-> 1]

\* The body shared by the getters: one requests.get, raise_for_status() and
\* response.json() inside try / except RequestException: return None.
\* requests is the number of requests sent, none the getter's None.
Exchange(outcome, payload, none, json_error_caught) ==
    IF outcome = "ok" THEN [ret |-> payload, exc |-> "none", requests |-> 1]
    ELSE IF outcome \in HttpFailures THEN [ret |-> none, exc |-> "none", requests |-> 1]
    ELSE IF json_error_caught THEN [ret |-> none, exc |-> "none", requests |-> 1]
    ELSE [ret |-> none, exc |-> "ValueError", requests |-> 1]

(***************************************************************************)
(* The store: the companies and vacancies tables of create_tables and the  *)
(* statements of DBManager / DatabaseManager.                              *)
(*                                                                         *)
(* A table is the sequence of its rows in insertion order; a row's place   *)
(* stands for its serial id, which no statement of the program reads as a  *)
(* value.  A company row is [company_id, name, site_url, open_vacancies],  *)
(* a vacancy row has the twelve columns of a Vacancy.  An operation's      *)
(* fault is what its connection does: "none", or "connect" when            *)
(* get_connection returns None; SpecQuery adds the faults of StoreFaults.  *)
(***************************************************************************)
CompanyRow(company_id, name, site_url, open_vacancies) ==
    [company_id |-> company_id, name |-> name, site_url |-> site_url,
     open_vacancies |-> open_vacancies]

HasCompany(rows, company_id) == \E j \in 1..Len(rows) : rows[j].company_id = company_id

HasVacancy(rows, vacancy_id) == \E j \in 1..Len(rows) : rows[j].vacancy_id = vacancy_id

Faults == {"none", "connect"}

\* What else can happen to a statement: with "lost" the server closes the
\* connection while the statement runs; "query" is a statement the server
\* rejects on a connection that stays usable (see ServerFault).
StoreFaults == Faults \cup {"lost"}

\* DatabaseManager.get_connection: a new connection, or None.
get_connection(fault) == IF fault = "connect" THEN "none" ELSE "open"

\* A mutant of CloseConnection: the finally clause is missing.
CloseConnection_leaks(conn) == conn

\* The finally clause of an operation: if conn is not None: conn.close().
CloseConnection(conn) == IF conn = "none" THEN "none" ELSE "closed"

\* conn.rollback() in the except handler of a write: on a connection the
\* server has closed it raises InterfaceError, which leaves the handler.
Rollback(fault) == IF fault = "lost" THEN "InterfaceError" ELSE "none"

\* A mutant of UpsertCompany: ON CONFLICT (company_id) DO NOTHING.
UpsertCompany_keeps_old(rows, row) ==
    IF HasCompany(rows, row.company_id) THEN rows ELSE Append(rows, row)

\* INSERT INTO companies ... ON CONFLICT (company_id) DO UPDATE SET name,
\* site_url, open_vacancies = EXCLUDED.*
UpsertCompany(rows, row) ==
    IF HasCompany(rows, row.company_id)
    THEN [j \in 1..Len(rows) |->
            IF rows[j].company_id = row.company_id
            THEN [rows[j] EXCEPT !.name = row.name, !.site_url = row.site_url,
                                 !.open_vacancies = row.open_vacancies]
            ELSE rows[j]]
    ELSE Append(rows, row)

\* DBManager.insert_company: the tables after the call and its return value.
\* name is NOT NULL; a violated constraint raises Error, which is rolled back.
\* exc is the exception the call lets through ("none" when it returns ret),
\* conn the state its connection is left in.
insert_company(rows, row, fault) ==
    LET conn == get_connection(fault)
    IN  IF conn = "none"
        THEN [companies |-> rows, ret |-> FALSE, err |-> "connect", exc |-> "none",
              conn |-> conn]
        ELSE IF fault \in {"query", "lost"}
        THEN [companies |-> rows, ret |-> FALSE, err |-> fault, exc |-> Rollback(fault),
              conn |-> CloseConnection(conn)]
        ELSE IF row.name.k = "null"
        THEN [companies |-> rows, ret |-> FALSE, err |-> "not_null",
              exc |-> Rollback(fault), conn |-> CloseConnection(conn)]
        ELSE [companies |-> UpsertCompany(rows, row), ret |-> TRUE, err |-> "none",
              exc |-> "none", conn |-> CloseConnection(conn)]

\* A mutant of InsertOrIgnoreVacancy: no conflict clause and no unique index.
InsertOrIgnoreVacancy_appends(rows, v) == Append(rows, v)

\* A mutant of InsertOrIgnoreVacancy: ON CONFLICT (vacancy_id) DO UPDATE.
InsertOrIgnoreVacancy_overwrites(rows, v) ==
    IF HasVacancy(rows, v.vacancy_id)
    THEN [j \in 1..Len(rows) |-> IF rows[j].vacancy_id = v.vacancy_id THEN v ELSE rows[j]]
    ELSE Append(rows, v)

\* INSERT INTO vacancies ... ON CONFLICT (vacancy_id) DO NOTHING
InsertOrIgnoreVacancy(rows, v) ==
    IF HasVacancy(rows, v.vacancy_id) THEN rows ELSE Append(rows, v)

\* A mutant of ForeignKeyHolds: the vacancies table has no FOREIGN KEY clause.
ForeignKeyHolds_unchecked(company_rows, v) == TRUE

\* FOREIGN KEY (company_id) REFERENCES companies(company_id)
ForeignKeyHolds(company_rows, v) == HasCompany(company_rows, v.company_id)

\* A mutant of insert_vacancy: the return value is cursor.rowcount > 0.
insert_vacancy_rowcount(company_rows, rows, v, fault) ==
    LET conn == get_connection(fault)
    IN  IF conn = "none"
        THEN [vacancies |-> rows, ret |-> FALSE, err |-> "connect", exc |-> "none",
              conn |-> conn]
        ELSE IF fault \in {"query", "lost"}
        THEN [vacancies |-> rows, ret |-> FALSE, err |-> fault, exc |-> Rollback(fault),
              conn |-> CloseConnection(conn)]
        ELSE IF v.name.k = "null"
        THEN [vacancies |-> rows, ret |-> FALSE, err |-> "not_null",
              exc |-> Rollback(fault), conn |-> CloseConnection(conn)]
        ELSE IF HasVacancy(rows, v.vacancy_id)
        THEN [vacancies |-> InsertOrIgnoreVacancy(rows, v), ret |-> FALSE, err |-> "none",
              exc |-> "none", conn |-> CloseConnection(conn)]
        ELSE IF ~ForeignKeyHolds(company_rows, v)
        THEN [vacancies |-> rows, ret |-> FALSE, err |-> "foreign_key",
              exc |-> Rollback(fault), conn |-> CloseConnection(conn)]
        ELSE [vacancies |-> InsertOrIgnoreVacancy(rows, v), ret |-> TRUE, err |-> "none",
              exc |-> "none", conn |-> CloseConnection(conn)]

\* DBManager.insert_vacancy: NOT NULL is checked on the proposed row, then
\* the conflict on vacancy_id (DO NOTHING ends the statement successfully),
\* then the foreign key of the row inserted.
insert_vacancy(company_rows, rows, v, fault) ==
    LET conn == get_connection(fault)
    IN  IF conn = "none"
        THEN [vacancies |-> rows, ret |-> FALSE, err |-> "connect", exc |-> "none",
              conn |-> conn]
        ELSE IF fault \in {"query", "lost"}
        THEN [vacancies |-> rows, ret |-> FALSE, err |-> fault, exc |-> Rollback(fault),
              conn |-> CloseConnection(conn)]
        ELSE IF v.name.k = "null"
        THEN [vacancies |-> rows, ret |-> FALSE, err |-> "not_null",
              exc |-> Rollback(fault), conn |-> CloseConnection(conn)]
        ELSE IF HasVacancy(rows, v.vacancy_id)
        THEN [vacancies |-> InsertOrIgnoreVacancy(rows, v), ret |-> TRUE, err |-> "none",
              exc |-> "none", conn |-> CloseConnection(conn)]
        ELSE IF ~ForeignKeyHolds(company_rows, v)
        THEN [vacancies |-> rows, ret |-> FALSE, err |-> "foreign_key",
              exc |-> Rollback(fault), conn |-> CloseConnection(conn)]
        ELSE [vacancies |-> InsertOrIgnoreVacancy(rows, v), ret |-> TRUE, err |-> "none",
              exc |-> "none", conn |-> CloseConnection(conn)]

\* DatabaseManager.clear_tables: both TRUNCATEs and one commit.
clear_tables(company_rows, rows, fault) ==
    LET conn == get_connection(fault)
    IN  IF conn = "none"
        THEN [companies |-> company_rows, vacancies |-> rows, ret |-> FALSE,
              err |-> "connect", exc |-> "none", conn |-> conn]
        ELSE IF fault \in {"query", "lost"}
        THEN [companies |-> company_rows, vacancies |-> rows, ret |-> FALSE,
              err |-> fault, exc |-> Rollback(fault), conn |-> CloseConnection(conn)]
        ELSE [companies |-> <<>>, vacancies |-> <<>>, ret |-> TRUE, err |-> "none",
              exc |-> "none", conn |-> CloseConnection(conn)]

\* The absent average (None).
NoAvg == [k |-> "null", num |-> 0, den |-> 1]

(***************************************************************************)
(* The schema operations of DatabaseManager.  sch is what exists on the    *)
(* server: "none", "database" (hh_database without tables) or "tables".    *)
(***************************************************************************)
\* DatabaseManager.get_admin_connection: a new connection to the maintenance
\* database, or None.
get_admin_connection(fault) == IF fault = "connect" THEN "none" ELSE "open"

\* DatabaseManager.create_database.  The two success paths close the
\* connection themselves before the finally clause closes it again; the
\* handler has no rollback (the connection is in autocommit mode).
create_database(sch, fault) ==
    LET conn == get_admin_connection(fault)
    IN  IF conn = "none"
        THEN [schema |-> sch, ret |-> FALSE, err |-> "connect", exc |-> "none",
              conn |-> conn]
        ELSE IF fault \in {"query", "lost"}
        THEN [schema |-> sch, ret |-> FALSE, err |-> fault, exc |-> "none",
              conn |-> CloseConnection(conn)]
        ELSE IF sch # "none"
        THEN [schema |-> sch, ret |-> TRUE, err |-> "none", exc |-> "none",
              conn |-> CloseConnection(CloseConnection(conn))]
        ELSE [schema |-> "database", ret |-> TRUE, err |-> "none", exc |-> "none",
              conn |-> CloseConnection(CloseConnection(conn))]

\* DatabaseManager.create_tables: both CREATE TABLE IF NOT EXISTS and one
\* commit; existing tables and their rows are left as they are.
create_tables(sch, fault) ==
    LET conn == get_connection(fault)
    IN  IF conn = "none"
        THEN [schema |-> sch, ret |-> FALSE, err |-> "connect", exc |-> "none",
              conn |-> conn]
        ELSE IF fault \in {"query", "lost"}
        THEN [schema |-> sch, ret |-> FALSE, err |-> fault, exc |-> Rollback(fault),
              conn |-> CloseConnection(conn)]
        ELSE [schema |-> "tables", ret |-> TRUE, err |-> "none", exc |-> "none",
              conn |-> CloseConnection(conn)]

\* What the server does to an operation on hh_database: without the
\* database get_connection fails, without the tables the statement fails
\* (undefined table), otherwise the connection does fault.
ServerFault(sch, fault, needs_tables) ==
    IF sch = "none" THEN "connect"
    ELSE IF sch = "database" /\ needs_tables /\ fault = "none" THEN "query"
    ELSE fault

(***************************************************************************)
(* The read queries of DBManager.  A query's rows come back in any order   *)
(* its ORDER BY allows, so a list query yields the set of its possible     *)
(* results.                                                                *)
(***************************************************************************)
\* The code points of the characters names are made of.
Ord(c) ==
    CASE c = "A" -> 65 [] c = "B" -> 66 [] c = "D" -> 68 [] c = "E" -> 69
      [] c = "Q" -> 81 [] c = "V" -> 86 [] c = "a" -> 97 [] c = "b" -> 98
      [] c = "d" -> 100 [] c = "e" -> 101 [] c = "q" -> 113 [] c = "v" -> 118
      [] OTHER -> 0

\* s <= t in the order ORDER BY sorts character columns.
RECURSIVE LexLeq(_, _)
LexLeq(s, t) ==
    IF s = <<>> THEN TRUE
    ELSE IF t = <<>> THEN FALSE
    ELSE IF Ord(s[1]) < Ord(t[1]) THEN TRUE
    ELSE IF Ord(s[1]) > Ord(t[1]) THEN FALSE
    ELSE LexLeq(Tail(s), Tail(t))

\* str.lower() and ILIKE on one character.
Lower(c) ==
    CASE c = "A" -> "a" [] c = "B" -> "b" [] c = "D" -> "d" [] c = "E" -> "e"
      [] c = "Q" -> "q" [] c = "V" -> "v" [] OTHER -> c

LowerStr(chars) == [j \in 1..Len(chars) |-> Lower(chars[j])]

\* needle in hay
Contains(hay, needle) ==
    \E k \in 0..(Len(hay) - Len(needle)) : SubSeq(hay, k + 1, k + Len(needle)) = needle

\* COALESCE(salary, 0)
Coalesce(v) == IF v.k = "null" THEN 0 ELSE v.i

\* salary_from IS NOT NULL OR salary_to IS NOT NULL
HasBound(v) == v.salary_from.k # "null" \/ v.salary_to.k # "null"

\* (COALESCE(salary_from, 0) + COALESCE(salary_to, 0)) / 2 on INTEGER
\* columns: the integer quotient.
Midpoint(v) == (Coalesce(v.salary_from) + Coalesce(v.salary_to)) \div 2

RECURSIVE SumOver(_, _)
SumOver(rows, j) == IF j > Len(rows) THEN 0 ELSE Midpoint(rows[j]) + SumOver(rows, j + 1)

\* AVG(midpoint) over the rows with a bound, as the fraction num / den; NULL
\* when no row has a bound.
AvgMidpoint(rows) ==
    LET bounded == SelectSeq(rows, HasBound)
    IN  IF bounded = <<>> THEN NoAvg
        ELSE [k |-> "num", num |-> SumOver(bounded, 1), den |-> Len(bounded)]

\* The arrangements of the elements of S that the order allows: order is
\* the set of the pairs <<x, y>> such that x may come before y.
Orderings(S, order) ==
    {f \in [1..Cardinality(S) -> S] :
        \A a, b \in 1..Cardinality(S) : a < b => f[a] # f[b] /\ <<f[a], f[b]>> \in order}

\* A mutant of JoinPairs: the ON condition is missing.
JoinPairs_cross(company_rows, rows) == (1..Len(company_rows)) \X (1..Len(rows))

\* FROM vacancies v JOIN companies c ON v.company_id = c.company_id: the
\* pairs <<c, v>> of row positions.
JoinPairs(company_rows, rows) ==
    {pr \in (1..Len(company_rows)) \X (1..Len(rows)) :
        rows[pr[2]].company_id = company_rows[pr[1]].company_id}

\* The six columns the vacancy queries select.
Selected(c, v) ==
    [company_name |-> c.name.s, vacancy_name |-> v.name.s, salary_from |-> v.salary_from,
     salary_to |-> v.salary_to, currency |-> v.currency, url |-> v.url]

\* The results of a vacancy query over the joined pairs in pairs.
Results(company_rows, rows, pairs, order) ==
    {[j \in 1..Cardinality(pairs) |-> Selected(company_rows[f[j][1]], rows[f[j][2]])] :
        f \in Orderings(pairs, order)}

\* ORDER BY c.name, v.name
ByNames(company_rows, rows, p, q) ==
    LET cp == company_rows[p[1]].name.s
        cq == company_rows[q[1]].name.s
    IN  IF cp # cq THEN LexLeq(cp, cq)
        ELSE LexLeq(rows[p[2]].name.s, rows[q[2]].name.s)

\* What a read query whose statement is not run, or fails, returns.
FailedQuery(conn, err) ==
    [results |-> {<<>>}, avg |-> NoAvg, err |-> err, exc |-> "none", conn |-> conn]

\* What a read query whose statement succeeded returns (cursor.fetchall()).
Fetched(conn, results, avg) ==
    [results |-> results, avg |-> avg, err |-> "none", exc |-> "none", conn |-> conn]

\* A mutant of CountOf: COUNT(*) counts the row of a company without vacancy.
CountOf_star(company_rows, rows, i) ==
    LET n == Cardinality({j \in 1..Len(rows) : rows[j].company_id = company_rows[i].company_id})
    IN  IF n = 0 THEN 1 ELSE n

\* COUNT(v.id) of the group of company i in the LEFT JOIN.
CountOf(company_rows, rows, i) ==
    Cardinality({j \in 1..Len(rows) : rows[j].company_id = company_rows[i].company_id})

\* DBManager.get_companies_and_vacancies_count: GROUP BY c.id, c.name,
\* ORDER BY vacancy_count DESC.
get_companies_and_vacancies_count(company_rows, rows, fault) ==
    LET conn == get_connection(fault)
        places == 1..Len(company_rows)
        by_count == {pr \in places \X places :
                        CountOf(company_rows, rows, pr[1]) >= CountOf(company_rows, rows, pr[2])}
    IN  IF conn = "none" THEN FailedQuery(conn, "connect")
        ELSE IF fault \in {"query", "lost"} THEN FailedQuery(CloseConnection(conn), fault)
        ELSE Fetched(CloseConnection(conn),
                     {[j \in 1..Len(company_rows) |->
                          [name |-> company_rows[f[j]].name.s,
                           vacancy_count |-> CountOf(company_rows, rows, f[j])]] :
                        f \in Orderings(places, by_count)},
                     NoAvg)

\* DBManager.get_all_vacancies
get_all_vacancies(company_rows, rows, fault) ==
    LET conn == get_connection(fault)
        pairs == JoinPairs(company_rows, rows)
        by_names == {pq \in pairs \X pairs : ByNames(company_rows, rows, pq[1], pq[2])}
    IN  IF conn = "none" THEN FailedQuery(conn, "connect")
        ELSE IF fault \in {"query", "lost"} THEN FailedQuery(CloseConnection(conn), fault)
        ELSE Fetched(CloseConnection(conn), Results(company_rows, rows, pairs, by_names),
                     NoAvg)

\* DBManager.get_avg_salary: result[0] if result and result[0] is not None
\* else None.
get_avg_salary(rows, fault) ==
    LET conn == get_connection(fault)
    IN  IF conn = "none" THEN FailedQuery(conn, "connect")
        ELSE IF fault \in {"query", "lost"} THEN FailedQuery(CloseConnection(conn), fault)
        ELSE Fetched(CloseConnection(conn), {<<>>}, AvgMidpoint(rows))

\* midpoint > (SELECT AVG(...)): a comparison with NULL selects nothing.
AboveAvg(v, avg) == avg.k = "num" /\ Midpoint(v) * avg.den > avg.num

\* DBManager.get_vacancies_with_higher_salary
get_vacancies_with_higher_salary(company_rows, rows, fault) ==
    LET conn == get_connection(fault)
        avg == AvgMidpoint(rows)
        pairs == {pr \in JoinPairs(company_rows, rows) :
                     AboveAvg(rows[pr[2]], avg) /\ HasBound(rows[pr[2]])}
        by_midpoint == {pq \in pairs \X pairs :
                           Midpoint(rows[pq[1][2]]) >= Midpoint(rows[pq[2][2]])}
    IN  IF conn = "none" THEN FailedQuery(conn, "connect")
        ELSE IF fault \in {"query", "lost"} THEN FailedQuery(CloseConnection(conn), fault)
        ELSE Fetched(CloseConnection(conn), Results(company_rows, rows, pairs, by_midpoint),
                     NoAvg)

\* DBManager.get_vacancies_with_keyword: v.name ILIKE '%keyword%' (the
\* keywords of the model hold letters only, no LIKE wildcard).
get_vacancies_with_keyword(company_rows, rows, keyword, fault) ==
    LET conn == get_connection(fault)
        pairs == {pr \in JoinPairs(company_rows, rows) :
                     Contains(LowerStr(rows[pr[2]].name.s), LowerStr(keyword))}
        by_names == {pq \in pairs \X pairs : ByNames(company_rows, rows, pq[1], pq[2])}
    IN  IF conn = "none" THEN FailedQuery(conn, "connect")
        ELSE IF fault \in {"query", "lost"} THEN FailedQuery(CloseConnection(conn), fault)
        ELSE Fetched(CloseConnection(conn), Results(company_rows, rows, pairs, by_names),
                     NoAvg)

(***************************************************************************)
(* The in-memory filters of VacancyManager.                                *)
(***************************************************************************)
\* VacancyManager.filter_by_keyword: the list comprehension calls
\* v.name.lower() on every record in turn; on a record whose name is None it
\* raises AttributeError.
filter_by_keyword(vacancies, keyword) ==
    LET keyword_lower == LowerStr(keyword)
        Matches(v) == Contains(LowerStr(v.name.s), keyword_lower)
    IN  IF \E j \in 1..Len(vacancies) : vacancies[j].name.k # "str"
        THEN [exc |-> "AttributeError", ret |-> <<>>]
        ELSE [exc |-> "none", ret |-> SelectSeq(vacancies, Matches)]

\* A mutant of BelowFloor: a record without upper bound passes the floor.
BelowFloor_open_end(v, salary_from) ==
    salary_from.k # "null" /\ v.salary_to.k # "null" /\ v.salary_to.i < salary_from.i

\* salary_from is not None and (v.salary_to is None or v.salary_to < salary_from)
BelowFloor(v, salary_from) ==
    salary_from.k # "null" /\ (v.salary_to.k = "null" \/ v.salary_to.i < salary_from.i)

\* salary_to is not None and (v.salary_from is None or v.salary_from > salary_to)
AboveCeiling(v, salary_to) ==
    salary_to.k # "null" /\ (v.salary_from.k = "null" \/ v.salary_from.i > salary_to.i)

\* VacancyManager.filter_by_salary_range: the for loop from record j on.
RECURSIVE filter_by_salary_range_loop(_, _, _, _, _)
filter_by_salary_range_loop(vacancies, salary_from, salary_to, j, filtered) ==
    IF j > Len(vacancies) THEN filtered
    ELSE LET v == vacancies[j]
         IN  IF v.salary_from.k = "null" /\ v.salary_to.k = "null"
             THEN filter_by_salary_range_loop(vacancies, salary_from, salary_to, j + 1, filtered)
             ELSE IF BelowFloor(v, salary_from)
             THEN filter_by_salary_range_loop(vacancies, salary_from, salary_to, j + 1, filtered)
             ELSE IF AboveCeiling(v, salary_to)
             THEN filter_by_salary_range_loop(vacancies, salary_from, salary_to, j + 1, filtered)
             ELSE filter_by_salary_range_loop(vacancies, salary_from, salary_to, j + 1,
                                              Append(filtered, v))

filter_by_salary_range(vacancies, salary_from, salary_to) ==
    [exc |-> "none",
     ret |-> filter_by_salary_range_loop(vacancies, salary_from, salary_to, 1, <<>>)]

(***************************************************************************)
(* The API's employer payloads and the orchestrator's inputs.              *)
(***************************************************************************)
InfoFailed == [k |-> "null", name |-> Absent, site_url |-> Absent, open_vacancies |-> Absent]

InfoData(name, site_url, open_vacancies) ==
    [k |-> "obj", name |-> name, site_url |-> site_url, open_vacancies |-> open_vacancies]

\* The payload of GET /vacancies/{id}, and the getter's None.
DetailsData(raw) == [k |-> "obj", vacancy |-> raw]

DetailsFailed == [k |-> "null", vacancy |-> BareRaw(Absent, 0)]

get_employer_vacancies(outcome, payload, json_error_caught) ==
    Exchange(outcome, payload, RequestFailed, json_error_caught)

get_employer_info(outcome, payload, json_error_caught) ==
    Exchange(outcome, payload, InfoFailed, json_error_caught)

get_vacancy_details(outcome, payload, json_error_caught) ==
    Exchange(outcome, payload, DetailsFailed, json_error_caught)

\* The arguments load_companies_and_vacancies passes to insert_company.
CompanyArgs(company_id, company_info) ==
    CompanyRow(company_id, Get(company_info.name), Get(company_info.site_url),
               GetDefault(company_info.open_vacancies, IntV(0)))

\* The employer identifiers of main's COMPANIES_IDS (two stand for the ten).
COMPANIES_IDS == <<1, 2>>

InfoPayloads ==
    {InfoData(StrV(<<"A">>), None, Absent),
     InfoData(StrV(<<"B">>), StrV(<<"u">>), IntV(3)),
     InfoData(Absent, StrV(<<"u">>), IntV(3))}

InfoResponses == {InfoFailed} \cup InfoPayloads

ItemNoName == [BareRaw(IntV(1), 1) EXCEPT !.name = Absent]

ItemBadId == [GoodRaw(IntV(1), 1) EXCEPT !.id = StrV(<<"x">>)]

ItemNullNest == [GoodRaw(IntV(1), 1) EXCEPT !.employment = NestNull]

\* The rows direct insert_company / insert_vacancy calls are made with.
CompanyRows == {CompanyArgs(id, info) : id \in {1, 2}, info \in InfoPayloads}

VacancyRows ==
    {parse_from_api(raw).vacancy :
        raw \in {GoodRaw(IntV(1), 1), GoodRaw(IntV(1), 2), BareRaw(IntV(1), 1),
                 BareRaw(StrV(<<"1", "2">>), 2), BareRaw(StrV(<<"1", "2">>), 1),
                 ItemNoName}}

(***************************************************************************)
(* The fixed API of SpecRerun: what the server answers to each request.    *)
(***************************************************************************)
ItemA2 == BareRaw(IntV(1), 2)

PageScripts ==
    {<<RequestFailed>>,
     <<PageData(ItemsList(<<ItemA>>), IntV(2)), PageData(ItemsList(<<ItemB>>), IntV(2))>>,
     <<PageData(ItemsList(<<ItemB, ItemNoName>>), IntV(1))>>,
     <<PageData(ItemsList(<<ItemA2, ItemBadId>>), Absent)>>,
     <<PageData(ItemsList(<<ItemNullNest, ItemA>>), IntV(1))>>}

\* The page responses of the orchestrator's runs under Spec.
LoaderPageResponses == UNION {{script[j] : j \in 1..Len(script)} : script \in PageScripts}

FreeApi == [fixed |-> FALSE, info |-> <<>>, pages |-> <<>>]

\* The employer payloads of the fixed API.
RerunInfos == {InfoFailed, InfoData(StrV(<<"B">>), StrV(<<"u">>), IntV(3))}

FixedApis ==
    {[fixed |-> TRUE, info |-> i, pages |-> p] :
        i \in [1..Len(COMPANIES_IDS) -> RerunInfos],
        p \in [1..Len(COMPANIES_IDS) -> PageScripts]}

\* The fixed server's answer to the request for page p of the employer at
\* position idx of the list.
ScriptedPage(a, idx, p) ==
    IF p + 1 <= Len(a.pages[idx]) THEN a.pages[idx][p + 1] ELSE RequestFailed

\* The number of load runs a behaviour of SpecRerun makes.
MaxRuns == 2

\* The rows the tables may hold when SpecRerun's first run starts.
MaxPreRows == 2

(***************************************************************************)
(* State.                                                                  *)
(***************************************************************************)
VARIABLES
    raw_list,       \* SpecParse: the list of raw vacancy objects under test
    parsed,         \* SpecParse: the last parse_from_api call and its outcome
    extracted,      \* SpecParse: the extract_vacancies call and its outcome
    gav_pc,         \* get_all_vacancies_for_employer: "idle", "loop", "returned"
    page,           \* get_all_vacancies_for_employer: the local page
    all_vacancies,  \* get_all_vacancies_for_employer: the local all_vacancies
    page_log,       \* the page requests of the current call, with their responses
    companies,      \* the rows of table companies
    vacancies,      \* the rows of table vacancies
    last_call,      \* the last store operation: its name, return value, error
    last_company,   \* history: per company_id, the row of the last successful
                    \* insert_company since the last clear_tables
    first_vacancy,  \* history: per vacancy_id, the row of the first successful
                    \* insert_vacancy since the last clear_tables
    ld_pc,          \* load_companies_and_vacancies: where the run is
    ld_idx,         \* load_companies_and_vacancies: the position in companies_ids
    company_info,   \* load_companies_and_vacancies: the local company_info
    ld_vacancies,   \* load_companies_and_vacancies: the local vacancies
    ld_k,           \* load_companies_and_vacancies: the position in vacancies
    added_count,    \* load_companies_and_vacancies: the local added_count
    ok_inserts,     \* history: the insert_vacancy calls for the current
                    \* identifier that met no store error
    new_rows,       \* history: the rows those calls added to table vacancies
    info_log,       \* history: the employer-info fetches of the current run
    events,         \* history: <<what, idx>> for what the current run did for
                    \* the identifier at position idx
    api,            \* SpecRerun: the server's fixed answers (FreeApi elsewhere)
    runs_done,      \* SpecRerun: the load runs completed
    db_prev,        \* SpecRerun: the tables when the run before the last returned
    db_last,        \* SpecRerun: the tables when the last run returned
    run_errs,       \* SpecRerun: the store errors met during the runs
    schema,         \* what exists on the server: "none", "database", "tables"
    last_op,        \* the last store or schema operation: its outcome, what it
                    \* did with its connection, and a query's result
    api_call,       \* SpecApi: the last call of an API getter and its outcome
    filter_call     \* SpecFilter: the last call of a filter and its outcome

parse_vars == <<raw_list, parsed, extracted>>

gav_vars == <<gav_pc, page, all_vacancies, page_log>>

store_vars == <<companies, vacancies, last_call, last_company, first_vacancy>>

loader_vars ==
    <<ld_pc, ld_idx, company_info, ld_vacancies, ld_k, added_count, ok_inserts, new_rows,
      info_log, events>>

rerun_vars == <<api, runs_done, db_prev, db_last, run_errs>>

query_vars == <<schema, last_op>>

client_vars == <<api_call, filter_call>>

vars == <<parse_vars, gav_vars, store_vars, loader_vars, rerun_vars, query_vars, client_vars>>

NotCalled == [called |-> FALSE, item |-> 0, exc |-> "none", vacancy |-> NoVacancy]

NotExtracted == [called |-> FALSE, exc |-> "none", vacancies |-> <<>>]

NoCall == [op |-> "none", ret |-> FALSE, err |-> "none"]

NoSnapshot == [companies |-> <<>>, vacancies |-> <<>>]

NoOp ==
    [op |-> "none", err |-> "none", exc |-> "none", opened |-> 0, closed |-> 0,
     open |-> 0, rows |-> <<>>, avg |-> NoAvg]

NoApiCall ==
    [op |-> "none", outcome |-> "none", sent |-> RequestFailed, ret |-> RequestFailed,
     exc |-> "none", requests |-> 0]

NoFilterCall ==
    [op |-> "none", vacancies |-> <<>>, keyword |-> <<>>, salary_from |-> None,
     salary_to |-> None, exc |-> "none", ret |-> <<>>, after |-> <<>>]

ParseIdle == raw_list = <<>> /\ parsed = NotCalled /\ extracted = NotExtracted

PagesIdle == gav_pc = "idle" /\ page = 0 /\ all_vacancies = <<>> /\ page_log = <<>>

\* The tables as create_tables leaves them in a new database.
StoreEmpty ==
    /\ companies = <<>> /\ vacancies = <<>> /\ last_call = NoCall
    /\ last_company = {} /\ first_vacancy = {}

LoaderIdle ==
    /\ ld_pc = "idle" /\ ld_idx = 0 /\ company_info = InfoFailed
    /\ ld_vacancies = <<>> /\ ld_k = 0 /\ added_count = 0
    /\ ok_inserts = 0 /\ new_rows = 0
    /\ info_log = <<>> /\ events = {}

RerunIdle ==
    /\ runs_done = 0 /\ db_prev = NoSnapshot /\ db_last = NoSnapshot /\ run_errs = {}

\* main has created the database and the tables; no operation was called.
QueryIdle == schema = "tables" /\ last_op = NoOp

ClientIdle == api_call = NoApiCall /\ filter_call = NoFilterCall

(***************************************************************************)
(* The store operations, as the program's callers see them.                *)
(***************************************************************************)
\* The store errors of the runs, kept for SpecRerun only.
NoteError(err) ==
    run_errs' = IF api.fixed /\ ld_pc # "idle" /\ err # "none"
                THEN run_errs \cup {err} ELSE run_errs

\* What an operation whose outcome is r did with connections: it opened one
\* unless get_connection returned None, and closed it if conn is "closed".
Operation(op, r, rows, avg) ==
    LET opened == IF r.conn = "none" THEN 0 ELSE 1
        closed == IF r.conn = "closed" THEN 1 ELSE 0
    IN  [op |-> op, err |-> r.err, exc |-> r.exc, opened |-> opened, closed |-> closed,
         open |-> last_op.open + opened - closed, rows |-> rows, avg |-> avg]

\* A call of DBManager.insert_company(row) whose connection does fault.
InsertCompanyCall(row, fault) ==
    LET r == insert_company(companies, row, fault)
    IN  /\ companies' = r.companies
        /\ last_call' = [op |-> "insert_company", ret |-> r.ret, err |-> r.err]
        /\ last_op' = Operation("insert_company", r, <<>>, NoAvg)
        /\ last_company' =
              IF r.ret
              THEN {c \in last_company : c.company_id # row.company_id} \cup {row}
              ELSE last_company
        /\ NoteError(r.err)
        /\ UNCHANGED <<vacancies, first_vacancy>>

\* A call of DBManager.insert_vacancy(v) whose connection does fault.
InsertVacancyCall(v, fault) ==
    LET r == insert_vacancy(companies, vacancies, v, fault)
    IN  /\ vacancies' = r.vacancies
        /\ last_call' = [op |-> "insert_vacancy", ret |-> r.ret, err |-> r.err]
        /\ last_op' = Operation("insert_vacancy", r, <<>>, NoAvg)
        /\ first_vacancy' =
              IF r.ret /\ \A f \in first_vacancy : f.vacancy_id # v.vacancy_id
              THEN first_vacancy \cup {v}
              ELSE first_vacancy
        /\ NoteError(r.err)
        /\ UNCHANGED <<companies, last_company>>

\* A call of DatabaseManager.clear_tables().
ClearTablesCall(fault) ==
    LET r == clear_tables(companies, vacancies, fault)
    IN  /\ companies' = r.companies
        /\ vacancies' = r.vacancies
        /\ last_call' = [op |-> "clear_tables", ret |-> r.ret, err |-> r.err]
        /\ last_op' = Operation("clear_tables", r, <<>>, NoAvg)
        /\ last_company' = IF r.ret THEN {} ELSE last_company
        /\ first_vacancy' = IF r.ret THEN {} ELSE first_vacancy
        /\ NoteError(r.err)

\* Under SpecRerun the calls before the first run fill the tables up to
\* MaxPreRows rows.
DirectCallAllowed ==
    /\ ld_pc = "idle"
    /\ api.fixed => runs_done = 0 /\ Len(companies) + Len(vacancies) < MaxPreRows

\* The calls made while no load run is in progress (as examples.py makes them).
DirectInsertCompany ==
    /\ DirectCallAllowed
    /\ \E row \in CompanyRows, fault \in Faults : InsertCompanyCall(row, fault)
    /\ UNCHANGED <<parse_vars, gav_vars, loader_vars, api, runs_done, db_prev, db_last>>
    /\ UNCHANGED <<schema, client_vars>>

DirectInsertVacancy ==
    /\ DirectCallAllowed
    /\ \E v \in VacancyRows, fault \in Faults : InsertVacancyCall(v, fault)
    /\ UNCHANGED <<parse_vars, gav_vars, loader_vars, api, runs_done, db_prev, db_last>>
    /\ UNCHANGED <<schema, client_vars>>

DirectClearTables ==
    /\ DirectCallAllowed
    /\ \E fault \in Faults : ClearTablesCall(fault)
    /\ UNCHANGED <<parse_vars, gav_vars, loader_vars, api, runs_done, db_prev, db_last>>
    /\ UNCHANGED <<schema, client_vars>>

(***************************************************************************)
(* get_all_vacancies_for_employer: the loop body.                          *)
(***************************************************************************)
\* The request for the current page is answered with data.
RequestPage(data) ==
    /\ gav_pc = "loop"
    /\ LET after == AfterPage(page, all_vacancies, data)
       IN  /\ gav_pc' = after.pc
           /\ page' = after.page
           /\ all_vacancies' = after.all_vacancies
    /\ page_log' = Append(page_log, [page |-> page, data |-> data])

(***************************************************************************)
(* load_companies_and_vacancies(COMPANIES_IDS), a step per call it makes.  *)
(***************************************************************************)
\* The for loop moves on: to the next identifier, or out of the loop.
Advance ==
    /\ ld_idx' = ld_idx + 1
    /\ ld_pc' = IF ld_idx + 1 > Len(COMPANIES_IDS) THEN "done" ELSE "fetch_info"
    /\ company_info' = InfoFailed
    /\ ld_vacancies' = <<>>
    /\ ld_k' = 0
    /\ added_count' = 0
    /\ ok_inserts' = 0 /\ new_rows' = 0

LoadStart ==
    /\ ld_pc = "idle"
    /\ api.fixed => runs_done < MaxRuns
    /\ ld_idx' = 1
    /\ ld_pc' = IF COMPANIES_IDS = <<>> THEN "done" ELSE "fetch_info"
    /\ info_log' = <<>>
    /\ events' = {}
    /\ UNCHANGED <<company_info, ld_vacancies, ld_k, added_count, ok_inserts, new_rows>>
    /\ UNCHANGED <<parse_vars, gav_vars, store_vars, rerun_vars>>
    /\ UNCHANGED <<query_vars, client_vars>>

\* api.get_employer_info(company_id) returns info; None skips the identifier.
LoadFetchInfo(info) ==
    /\ ld_pc = "fetch_info"
    /\ info_log' = Append(info_log, [idx |-> ld_idx, id |-> COMPANIES_IDS[ld_idx],
                                     ok |-> info.k # "null"])
    /\ IF info.k = "null"
       THEN Advance
       ELSE /\ company_info' = info
            /\ ld_pc' = "insert_company"
            /\ UNCHANGED <<ld_idx, ld_vacancies, ld_k, added_count, ok_inserts, new_rows>>
    /\ UNCHANGED <<events, parse_vars, gav_vars, store_vars, rerun_vars>>
    /\ UNCHANGED <<query_vars, client_vars>>

\* A mutant of LoadInsertCompany: the else branch has no continue.
LoadInsertCompany_no_continue(fault) ==
    /\ ld_pc = "insert_company"
    /\ InsertCompanyCall(CompanyArgs(COMPANIES_IDS[ld_idx], company_info), fault)
    /\ events' = events \cup {<<"insert_company", ld_idx>>}
                        \cup (IF last_call'.ret THEN {<<"company_written", ld_idx>>} ELSE {})
    /\ ld_pc' = "fetch_vacancies"
    /\ gav_pc' = "loop" /\ page' = 0 /\ all_vacancies' = <<>> /\ page_log' = <<>>
    /\ UNCHANGED <<ld_idx, company_info, ld_vacancies, ld_k, added_count, ok_inserts, new_rows>>
    /\ UNCHANGED <<info_log, parse_vars, api, runs_done, db_prev, db_last>>
    /\ UNCHANGED <<schema, client_vars>>

\* db_manager.insert_company(...); on True the page loop is entered.
LoadInsertCompany(fault) ==
    /\ ld_pc = "insert_company"
    /\ InsertCompanyCall(CompanyArgs(COMPANIES_IDS[ld_idx], company_info), fault)
    /\ events' = events \cup {<<"insert_company", ld_idx>>}
                        \cup (IF last_call'.ret THEN {<<"company_written", ld_idx>>} ELSE {})
    /\ IF last_call'.ret
       THEN /\ ld_pc' = "fetch_vacancies"
            /\ gav_pc' = "loop" /\ page' = 0 /\ all_vacancies' = <<>> /\ page_log' = <<>>
            /\ UNCHANGED <<ld_idx, company_info, ld_vacancies, ld_k, added_count, ok_inserts, new_rows>>
       ELSE /\ Advance
            /\ UNCHANGED gav_vars
    /\ UNCHANGED <<info_log, parse_vars, api, runs_done, db_prev, db_last>>
    /\ UNCHANGED <<schema, client_vars>>

\* One request of api.get_all_vacancies_for_employer(company_id).
LoadFetchPage(data) ==
    /\ ld_pc = "fetch_vacancies"
    /\ RequestPage(data)
    /\ events' = events \cup {<<"page", ld_idx>>}
    /\ UNCHANGED <<ld_pc, ld_idx, company_info, ld_vacancies, ld_k, added_count, ok_inserts, new_rows, info_log>>
    /\ UNCHANGED <<parse_vars, store_vars, rerun_vars>>
    /\ UNCHANGED <<query_vars, client_vars>>

\* The page loop has returned: VacancyManager.extract_vacancies(vacancies_data).
\* An exception it lets through leaves load_companies_and_vacancies, and main.
LoadExtract ==
    /\ ld_pc = "fetch_vacancies" /\ gav_pc = "returned"
    /\ LET r == extract_vacancies(all_vacancies)
       IN  IF r.exc # "none"
           THEN /\ ld_pc' = "crashed"
                /\ UNCHANGED <<ld_idx, company_info, ld_vacancies, ld_k, added_count, ok_inserts, new_rows>>
           ELSE /\ ld_pc' = "insert_vacancy"
                /\ ld_vacancies' = r.vacancies
                /\ ld_k' = 1
                /\ added_count' = 0
                /\ ok_inserts' = 0 /\ new_rows' = 0
                /\ UNCHANGED <<ld_idx, company_info>>
    /\ gav_pc' = "idle" /\ page' = 0 /\ all_vacancies' = <<>> /\ page_log' = <<>>
    /\ UNCHANGED <<info_log, events, parse_vars, store_vars, rerun_vars>>
    /\ UNCHANGED <<query_vars, client_vars>>

\* db_manager.insert_vacancy(...) for the next normalized vacancy; a True
\* return is counted.
LoadInsertVacancy(fault) ==
    /\ ld_pc = "insert_vacancy" /\ ld_k <= Len(ld_vacancies)
    /\ InsertVacancyCall(ld_vacancies[ld_k], fault)
    /\ events' = events \cup {<<"insert_vacancy", ld_idx>>}
    /\ ld_k' = ld_k + 1
    /\ added_count' = added_count + (IF last_call'.ret THEN 1 ELSE 0)
    /\ ok_inserts' = ok_inserts + (IF last_call'.err = "none" THEN 1 ELSE 0)
    /\ new_rows' = new_rows + Len(vacancies') - Len(vacancies)
    /\ UNCHANGED <<ld_pc, ld_idx, company_info, ld_vacancies>>
    /\ UNCHANGED <<info_log, parse_vars, gav_vars, api, runs_done, db_prev, db_last>>
    /\ UNCHANGED <<schema, client_vars>>

\* The vacancies are through: added_count is printed, the run sleeps and
\* goes on to the next identifier.
LoadReport ==
    /\ ld_pc = "insert_vacancy" /\ ld_k > Len(ld_vacancies)
    /\ Advance
    /\ UNCHANGED <<info_log, events, parse_vars, gav_vars, store_vars, rerun_vars>>
    /\ UNCHANGED <<query_vars, client_vars>>

\* The run returns to main's menu loop.
LoadReturn ==
    /\ ld_pc = "done"
    /\ ld_pc' = "idle"
    /\ ld_idx' = 0
    /\ IF api.fixed
       THEN /\ runs_done' = runs_done + 1
            /\ db_prev' = db_last
            /\ db_last' = [companies |-> companies, vacancies |-> vacancies]
       ELSE UNCHANGED <<runs_done, db_prev, db_last>>
    /\ UNCHANGED <<company_info, ld_vacancies, ld_k, added_count, ok_inserts, new_rows, info_log, events>>
    /\ UNCHANGED <<parse_vars, gav_vars, store_vars, api, run_errs>>
    /\ UNCHANGED <<query_vars, client_vars>>

(***************************************************************************)
(* Spec: the store operations and load runs in any order; the API answers  *)
(* each request with any response.                                         *)
(***************************************************************************)
Init ==
    /\ ParseIdle /\ PagesIdle /\ StoreEmpty /\ LoaderIdle /\ RerunIdle
    /\ QueryIdle /\ ClientIdle
    /\ api = FreeApi

Next ==
    \/ DirectInsertCompany
    \/ DirectInsertVacancy
    \/ DirectClearTables
    \/ LoadStart
    \/ \E info \in InfoResponses : LoadFetchInfo(info)
    \/ \E fault \in Faults : LoadInsertCompany(fault)
    \/ \E data \in LoaderPageResponses : LoadFetchPage(data)
    \/ LoadExtract
    \/ \E fault \in Faults : LoadInsertVacancy(fault)
    \/ LoadReport
    \/ LoadReturn

Spec == Init /\ [][Next]_vars

(***************************************************************************)
(* SpecRerun: load runs, one after the other, against one fixed API; the   *)
(* store operations may be called before the first run.                    *)
(***************************************************************************)
InitRerun ==
    /\ ParseIdle /\ PagesIdle /\ StoreEmpty /\ LoaderIdle /\ RerunIdle
    /\ QueryIdle /\ ClientIdle
    /\ api \in FixedApis

NextRerun ==
    \/ DirectInsertCompany
    \/ DirectInsertVacancy
    \/ LoadStart
    \/ LoadFetchInfo(api.info[ld_idx])
    \/ \E fault \in Faults : LoadInsertCompany(fault)
    \/ LoadFetchPage(ScriptedPage(api, ld_idx, page))
    \/ LoadExtract
    \/ \E fault \in Faults : LoadInsertVacancy(fault)
    \/ LoadReport
    \/ LoadReturn

SpecRerun == InitRerun /\ [][NextRerun]_vars

(***************************************************************************)
(* SpecParse: the normalizer applied to bounded raw inputs.                *)
(***************************************************************************)
InitParse ==
    /\ raw_list \in ListsOver(RawSamples, MaxLen) \cup {<<r>> : r \in RawVacancies}
    /\ parsed = NotCalled
    /\ extracted = NotExtracted
    /\ PagesIdle /\ StoreEmpty /\ LoaderIdle /\ RerunIdle
    /\ QueryIdle /\ ClientIdle
    /\ api = FreeApi

\* One call of Vacancy.parse_from_api on item j of the list.
ParseCall(j) ==
    /\ ~parsed.called /\ ~extracted.called
    /\ LET r == parse_from_api(raw_list[j])
       IN  parsed' = [called |-> TRUE, item |-> j, exc |-> r.exc, vacancy |-> r.vacancy]
    /\ UNCHANGED <<raw_list, extracted, gav_vars, store_vars, loader_vars, rerun_vars>>
    /\ UNCHANGED <<query_vars, client_vars>>

\* One call of VacancyManager.extract_vacancies on the list.
ExtractCall ==
    /\ ~parsed.called /\ ~extracted.called
    /\ LET r == extract_vacancies(raw_list)
       IN  extracted' = [called |-> TRUE, exc |-> r.exc, vacancies |-> r.vacancies]
    /\ UNCHANGED <<raw_list, parsed, gav_vars, store_vars, loader_vars, rerun_vars>>
    /\ UNCHANGED <<query_vars, client_vars>>

NextParse ==
    \/ \E j \in 1..Len(raw_list) : ParseCall(j)
    \/ ExtractCall

SpecParse == InitParse /\ [][NextParse]_vars

(***************************************************************************)
(* SpecPages: one call of get_all_vacancies_for_employer; the server may   *)
(* answer each request with any response.                                  *)
(***************************************************************************)
\* The call's entry: all_vacancies = [], page = 0.
InitPages ==
    /\ ParseIdle /\ StoreEmpty /\ LoaderIdle /\ RerunIdle
    /\ QueryIdle /\ ClientIdle
    /\ api = FreeApi
    /\ gav_pc = "loop" /\ page = 0 /\ all_vacancies = <<>> /\ page_log = <<>>

NextPages ==
    \E data \in PageResponses :
        /\ RequestPage(data)
        /\ UNCHANGED <<parse_vars, store_vars, loader_vars, rerun_vars, query_vars, client_vars>>

SpecPages == InitPages /\ [][NextPages]_vars

\* Every request is answered: requests.get has timeout=5, so the call
\* returns a response or None, and the loop body goes on.
SpecPagesFair == SpecPages /\ WF_vars(NextPages)

(***************************************************************************)
(* SpecQuery: the schema operations, the writes and the read queries in    *)
(* any order, from a server without the database; every operation may meet *)
(* any fault of StoreFaults.                                               *)
(***************************************************************************)
\* A vacancy of employer e with a salary object.
SalariedRaw(id, e, name, lo, hi) ==
    [BareRaw(IntV(id), e) EXCEPT !.name = StrV(name),
                                 !.salary = SalaryObj(lo, hi, StrV(<<"R", "U", "R">>))]

\* The vacancies the tables of SpecQuery are filled with: midpoints 1.5, 2
\* for vacancy 1, none or 1 for vacancy 2, 2 or 1 for vacancy 3.
QueryVacancies ==
    {parse_from_api(raw).vacancy :
        raw \in {SalariedRaw(1, 1, <<"D", "e", "v">>, IntV(3), None),
                 SalariedRaw(1, 1, <<"D", "e", "v">>, IntV(1), IntV(3)),
                 SalariedRaw(2, 1, <<"Q", "A">>, None, None),
                 SalariedRaw(2, 2, <<"Q", "A">>, None, IntV(2)),
                 SalariedRaw(3, 2, <<"d", "e", "v">>, IntV(1), IntV(3)),
                 SalariedRaw(3, 2, <<"d", "e", "v">>, None, IntV(2))}}

\* The company rows the tables of SpecQuery are filled with.
QueryCompanies ==
    {CompanyArgs(1, InfoData(StrV(<<"B">>), StrV(<<"u">>), IntV(3))),
     CompanyArgs(2, InfoData(StrV(<<"A">>), None, Absent)),
     CompanyArgs(2, InfoData(StrV(<<"B">>), StrV(<<"u">>), IntV(3)))}

\* The keywords of get_vacancies_with_keyword calls.
Keywords == {<<"d", "E">>}

OpCreateDatabase ==
    /\ \E fault \in StoreFaults :
          LET r == create_database(schema, fault)
          IN  /\ schema' = r.schema
              /\ last_op' = Operation("create_database", r, <<>>, NoAvg)
    /\ UNCHANGED <<parse_vars, gav_vars, store_vars, loader_vars, rerun_vars, client_vars>>

OpCreateTables ==
    /\ \E fault \in StoreFaults :
          LET r == create_tables(schema, ServerFault(schema, fault, FALSE))
          IN  /\ schema' = r.schema
              /\ last_op' = Operation("create_tables", r, <<>>, NoAvg)
    /\ UNCHANGED <<parse_vars, gav_vars, store_vars, loader_vars, rerun_vars, client_vars>>

OpInsertCompany ==
    /\ \E row \in QueryCompanies, fault \in StoreFaults :
          InsertCompanyCall(row, ServerFault(schema, fault, TRUE))
    /\ UNCHANGED <<parse_vars, gav_vars, loader_vars, api, runs_done, db_prev, db_last>>
    /\ UNCHANGED <<schema, client_vars>>

OpInsertVacancy ==
    /\ \E v \in QueryVacancies, fault \in StoreFaults :
          InsertVacancyCall(v, ServerFault(schema, fault, TRUE))
    /\ UNCHANGED <<parse_vars, gav_vars, loader_vars, api, runs_done, db_prev, db_last>>
    /\ UNCHANGED <<schema, client_vars>>

OpClearTables ==
    /\ \E fault \in StoreFaults : ClearTablesCall(ServerFault(schema, fault, TRUE))
    /\ UNCHANGED <<parse_vars, gav_vars, loader_vars, api, runs_done, db_prev, db_last>>
    /\ UNCHANGED <<schema, client_vars>>

\* A read query whose outcome is r and whose rows come back as rows.
ReadCall(op, r, rows) ==
    /\ last_op' = Operation(op, r, rows, r.avg)
    /\ UNCHANGED <<parse_vars, gav_vars, store_vars, loader_vars, rerun_vars, schema, client_vars>>

OpCompaniesCount ==
    \E fault \in StoreFaults :
        LET r == get_companies_and_vacancies_count(companies, vacancies,
                                                   ServerFault(schema, fault, TRUE))
        IN  \E rows \in r.results : ReadCall("get_companies_and_vacancies_count", r, rows)

OpAllVacancies ==
    \E fault \in StoreFaults :
        LET r == get_all_vacancies(companies, vacancies, ServerFault(schema, fault, TRUE))
        IN  \E rows \in r.results : ReadCall("get_all_vacancies", r, rows)

OpAvgSalary ==
    \E fault \in StoreFaults :
        LET r == get_avg_salary(vacancies, ServerFault(schema, fault, TRUE))
        IN  \E rows \in r.results : ReadCall("get_avg_salary", r, rows)

OpHigherSalary ==
    \E fault \in StoreFaults :
        LET r == get_vacancies_with_higher_salary(companies, vacancies,
                                                  ServerFault(schema, fault, TRUE))
        IN  \E rows \in r.results : ReadCall("get_vacancies_with_higher_salary", r, rows)

OpKeyword ==
    \E keyword \in Keywords, fault \in StoreFaults :
        LET r == get_vacancies_with_keyword(companies, vacancies, keyword,
                                            ServerFault(schema, fault, TRUE))
        IN  \E rows \in r.results : ReadCall("get_vacancies_with_keyword", r, rows)

InitQuery ==
    /\ ParseIdle /\ PagesIdle /\ StoreEmpty /\ LoaderIdle /\ RerunIdle /\ ClientIdle
    /\ api = FreeApi
    /\ schema = "none" /\ last_op = NoOp

NextQuery ==
    \/ OpCreateDatabase
    \/ OpCreateTables
    \/ OpInsertCompany
    \/ OpInsertVacancy
    \/ OpClearTables
    \/ OpCompaniesCount
    \/ OpAllVacancies
    \/ OpAvgSalary
    \/ OpHigherSalary
    \/ OpKeyword

SpecQuery == InitQuery /\ [][NextQuery]_vars

(***************************************************************************)
(* SpecApi: calls of the three getters; the server answers each request    *)
(* with any outcome and any payload.                                       *)
(***************************************************************************)
\* The payloads of GET /vacancies/{id}.
DetailsPayloads ==
    {DetailsData(Raw(id, em, nm, SalaryNull, NestAbsent, NestAbsent, NestAbsent, Absent,
                     Absent, Absent)) :
        id \in IdOptions, em \in EmployerOptions, nm \in NameOptions}

\* A getter was called, the request met outcome and the call's result is r;
\* sent is the payload of an "ok" response.
ApiCall(op, outcome, sent, r) ==
    /\ api_call' = [op |-> op, outcome |-> outcome, sent |-> sent, ret |-> r.ret,
                    exc |-> r.exc, requests |-> r.requests]
    /\ UNCHANGED <<parse_vars, gav_vars, store_vars, loader_vars, rerun_vars, query_vars,
                   filter_call>>

GetEmployerVacancies ==
    \E outcome \in HttpOutcomes, payload \in PageResponses \ {RequestFailed},
       json_error_caught \in BOOLEAN :
        ApiCall("get_employer_vacancies", outcome,
                IF outcome = "ok" THEN payload ELSE RequestFailed,
                get_employer_vacancies(outcome, payload, json_error_caught))

GetEmployerInfo ==
    \E outcome \in HttpOutcomes, payload \in InfoPayloads, json_error_caught \in BOOLEAN :
        ApiCall("get_employer_info", outcome,
                IF outcome = "ok" THEN payload ELSE InfoFailed,
                get_employer_info(outcome, payload, json_error_caught))

GetVacancyDetails ==
    \E outcome \in HttpOutcomes, payload \in DetailsPayloads, json_error_caught \in BOOLEAN :
        ApiCall("get_vacancy_details", outcome,
                IF outcome = "ok" THEN payload ELSE DetailsFailed,
                get_vacancy_details(outcome, payload, json_error_caught))

InitApi ==
    /\ ParseIdle /\ PagesIdle /\ StoreEmpty /\ LoaderIdle /\ RerunIdle
    /\ QueryIdle /\ ClientIdle
    /\ api = FreeApi

NextApi ==
    \/ GetEmployerVacancies
    \/ GetEmployerInfo
    \/ GetVacancyDetails

SpecApi == InitApi /\ [][NextApi]_vars

(***************************************************************************)
(* SpecFilter: the filters applied to the records extract_vacancies makes  *)
(* of a list of raw vacancies.                                             *)
(***************************************************************************)
\* The raw vacancies of the lists: one per shape of salary, and one whose
\* name is missing.
FilterRaws ==
    {SalariedRaw(1, 1, <<"D", "e", "v">>, IntV(3), None),
     SalariedRaw(2, 1, <<"Q", "A">>, None, IntV(2)),
     SalariedRaw(3, 2, <<"d", "e", "v">>, IntV(1), IntV(3)),
     BareRaw(IntV(4), 2),
     [BareRaw(IntV(5), 1) EXCEPT !.name = Absent]}

FilterKeywords == {<<>>, <<"d", "E">>, <<"q">>, <<"d", "e", "v", "s">>}

FloorOptions == {None, IntV(2), IntV(3)}

CeilingOptions == {None, IntV(0), IntV(2)}

\* A call of a filter on the records of raw_list; the list the caller passed
\* is left as it was.
FilterCall(op, keyword, salary_from, salary_to, r) ==
    LET records == extract_vacancies(raw_list).vacancies
    IN  /\ filter_call' = [op |-> op, vacancies |-> records, keyword |-> keyword,
                           salary_from |-> salary_from, salary_to |-> salary_to,
                           exc |-> r.exc, ret |-> r.ret, after |-> records]
        /\ UNCHANGED <<parse_vars, gav_vars, store_vars, loader_vars, rerun_vars,
                       query_vars, api_call>>

FilterByKeyword ==
    \E keyword \in FilterKeywords :
        FilterCall("filter_by_keyword", keyword, None, None,
                   filter_by_keyword(extract_vacancies(raw_list).vacancies, keyword))

FilterBySalaryRange ==
    \E salary_from \in FloorOptions, salary_to \in CeilingOptions :
        FilterCall("filter_by_salary_range", <<>>, salary_from, salary_to,
                   filter_by_salary_range(extract_vacancies(raw_list).vacancies,
                                          salary_from, salary_to))

InitFilter ==
    /\ raw_list \in ListsOver(FilterRaws, MaxLen)
    /\ parsed = NotCalled
    /\ extracted = NotExtracted
    /\ PagesIdle /\ StoreEmpty /\ LoaderIdle /\ RerunIdle
    /\ QueryIdle /\ ClientIdle
    /\ api = FreeApi

NextFilter ==
    \/ FilterByKeyword
    \/ FilterBySalaryRange

SpecFilter == InitFilter /\ [][NextFilter]_vars

(***************************************************************************)
(* Claims about the store (checked under Spec).                            *)
(***************************************************************************)
RowsOf(table) == {table[j] : j \in 1..Len(table)}

\* The vacancies an insert_vacancy call can be made with in this state.
CallableVacancies ==
    VacancyRows \cup (IF ld_pc = "insert_vacancy" /\ ld_k <= Len(ld_vacancies)
                      THEN {ld_vacancies[ld_k]} ELSE {})

\* C1: after any sequence of insert_company, insert_vacancy and clear_tables
\* calls the companies table holds at most one row per company_id, and that
\* row's name, site_url and open_vacancies are those of the most recent
\* successful insert_company for that company_id since the last clear_tables.
C1_OneRowLatestValues ==
    /\ \A i, j \in 1..Len(companies) :
          companies[i].company_id = companies[j].company_id => i = j
    /\ RowsOf(companies) = last_company

C1_Witness ==
    /\ last_call = [op |-> "insert_company", ret |-> TRUE, err |-> "none"]
    /\ companies = <<CompanyRow(2, StrV(<<"A">>), None, IntV(0)),
                     CompanyRow(1, StrV(<<"B">>), StrV(<<"u">>), IntV(3))>>
    /\ ld_pc = "fetch_vacancies" /\ ld_idx = 2

\* C2: insert_vacancy with a vacancy_id that is already stored changes no
\* vacancy row and no company row; every stored vacancy row is the row of
\* the first insertion of its vacancy_id, and there is at most one row per
\* vacancy_id.
C2_ExistingVacancyWins ==
    /\ [](\A i, j \in 1..Len(vacancies) :
              vacancies[i].vacancy_id = vacancies[j].vacancy_id => i = j)
    /\ [](RowsOf(vacancies) = first_vacancy)
    /\ [][\A v \in CallableVacancies, fault \in Faults :
              InsertVacancyCall(v, fault) /\ HasVacancy(vacancies, v.vacancy_id)
                  => vacancies' = vacancies /\ companies' = companies]_vars

\* Two inserts of the run returned True and one row is stored: the second
\* met the first one's vacancy_id.
C2_Witness ==
    /\ ld_pc = "insert_vacancy" /\ ld_k = 3 /\ added_count = 2
    /\ ld_vacancies[1].vacancy_id = ld_vacancies[2].vacancy_id
    /\ ld_vacancies[1] # ld_vacancies[2]
    /\ vacancies = <<ld_vacancies[1]>>

ForeignKeyInvariant ==
    \A j \in 1..Len(vacancies) : HasCompany(companies, vacancies[j].company_id)

QueryLayerWrites == {"insert_company", "insert_vacancy"}

QueryLayerReads ==
    {"get_companies_and_vacancies_count", "get_all_vacancies", "get_avg_salary",
     "get_vacancies_with_higher_salary", "get_vacancies_with_keyword"}

\* C11: for insert_company, insert_vacancy and the five read queries a store
\* error (connection failure, constraint violation, query failure) never
\* propagates to the caller: a write returns False and leaves the stored
\* rows unchanged, a list query returns the empty list and get_avg_salary
\* returns the absent value.
C11_StoreErrorsNeverPropagate ==
    /\ [](last_op.op \in QueryLayerWrites \cup QueryLayerReads /\ last_op.err # "none"
             => /\ last_op.exc = "none"
                /\ last_op.rows = <<>> /\ last_op.avg = NoAvg
                /\ last_op.op \in QueryLayerWrites => last_call.ret = FALSE)
    /\ [][last_op'.op \in QueryLayerWrites \cup QueryLayerReads /\ last_op'.err # "none"
             => companies' = companies /\ vacancies' = vacancies]_vars

\* C12: every persistence/query and schema operation opens at most one
\* connection and closes it on every exit path (success, store error, early
\* return), so no connection opened by an operation that has returned is
\* still open; an operation that reaches the server does so on a connection
\* it opened itself.
C12_ConnectionsClosed ==
    /\ last_op.opened <= 1
    /\ last_op.closed = last_op.opened
    /\ last_op.open = 0
    /\ last_op.op # "none" /\ last_op.err # "connect" => last_op.opened = 1

\* An insert_company that left through its handler's exception, and closed
\* the connection it had opened.
C12_Witness ==
    /\ last_op.op = "insert_company" /\ last_op.exc = "InterfaceError"
    /\ last_op.opened = 1 /\ last_op.closed = 1 /\ last_op.open = 0
    /\ companies # <<>>

\* The stored vacancies with at least one salary bound.
WithBound == {j \in 1..Len(vacancies) : vacancies[j].salary_from.k = "int"
                                        \/ vacancies[j].salary_to.k = "int"}

\* Twice the midpoint of a vacancy: salary_from_or_0 + salary_to_or_0.
TwiceMidpoint(v) ==
    (IF v.salary_from.k = "int" THEN v.salary_from.i ELSE 0)
    + (IF v.salary_to.k = "int" THEN v.salary_to.i ELSE 0)

RECURSIVE TwiceMidpointSum(_)
TwiceMidpointSum(J) ==
    IF J = {} THEN 0
    ELSE LET j == CHOOSE x \in J : TRUE
         IN  TwiceMidpoint(vacancies[j]) + TwiceMidpointSum(J \ {j})

\* C15: get_avg_salary returns the arithmetic mean, over exactly the stored
\* vacancies with at least one salary bound, of the midpoint
\* (salary_from_or_0 + salary_to_or_0) / 2, the midpoint being exactly half
\* of the sum; it returns the absent value when no stored vacancy has a bound.
C15_AvgIsMeanOfMidpoints ==
    last_op.op = "get_avg_salary" /\ last_op.err = "none" =>
        IF WithBound = {} THEN last_op.avg = NoAvg
        ELSE /\ last_op.avg.k = "num"
             /\ last_op.avg.num * 2 * Cardinality(WithBound)
                   = TwiceMidpointSum(WithBound) * last_op.avg.den

\* The row a vacancy query shows for stored vacancy j: its columns and the
\* name of the company that owns it.
ShownRow(j) ==
    LET c == CHOOSE i \in 1..Len(companies) :
                 companies[i].company_id = vacancies[j].company_id
    IN  [company_name |-> companies[c].name.s, vacancy_name |-> vacancies[j].name.s,
         salary_from |-> vacancies[j].salary_from, salary_to |-> vacancies[j].salary_to,
         currency |-> vacancies[j].currency, url |-> vacancies[j].url]

\* rows shows each vacancy of J once and nothing else; f is the vacancy
\* shown at each place.
Showings(rows, J) ==
    {f \in [1..Len(rows) -> J] :
        /\ \A j \in J : \E a \in 1..Len(rows) : f[a] = j
        /\ \A a, b \in 1..Len(rows) : f[a] = f[b] => a = b
        /\ \A a \in 1..Len(rows) : rows[a] = ShownRow(f[a])}

\* C16: get_vacancies_with_higher_salary returns exactly the stored
\* vacancies with at least one salary bound whose midpoint (half of
\* salary_from_or_0 + salary_to_or_0) is strictly greater than the value
\* get_avg_salary yields on the same store, in non-increasing order of
\* midpoint; it returns no rows when all such vacancies have the same
\* midpoint or none has a bound.
C16_AboveAverageDescending ==
    last_op.op = "get_vacancies_with_higher_salary" /\ last_op.err = "none" =>
        LET avg == get_avg_salary(vacancies, "none").avg
            above == {j \in WithBound :
                         avg.k = "num"
                         /\ TwiceMidpoint(vacancies[j]) * avg.den > 2 * avg.num}
        IN  /\ \E f \in Showings(last_op.rows, above) :
                  \A a, b \in 1..Len(last_op.rows) :
                      a < b => TwiceMidpoint(vacancies[f[a]]) >= TwiceMidpoint(vacancies[f[b]])
            /\ (\A i, j \in WithBound :
                   TwiceMidpoint(vacancies[i]) = TwiceMidpoint(vacancies[j]))
                  => last_op.rows = <<>>

\* The number of stored vacancies of the company stored at place i.
VacanciesOf(i) ==
    Cardinality({j \in 1..Len(vacancies) : vacancies[j].company_id = companies[i].company_id})

\* C17: get_companies_and_vacancies_count returns exactly one row per stored
\* company, companies without vacancy included; a row's count is the number
\* of stored vacancies with that company's company_id (0 when none), and the
\* rows are in non-increasing order of count.
C17_OneCountPerCompany ==
    last_op.op = "get_companies_and_vacancies_count" /\ last_op.err = "none" =>
        /\ \E f \in [1..Len(last_op.rows) -> 1..Len(companies)] :
              /\ \A i \in 1..Len(companies) : \E a \in 1..Len(last_op.rows) : f[a] = i
              /\ \A a, b \in 1..Len(last_op.rows) : f[a] = f[b] => a = b
              /\ \A a \in 1..Len(last_op.rows) :
                    /\ last_op.rows[a].name = companies[f[a]].name.s
                    /\ last_op.rows[a].vacancy_count = VacanciesOf(f[a])
        /\ \A a, b \in 1..Len(last_op.rows) :
              a < b => last_op.rows[a].vacancy_count >= last_op.rows[b].vacancy_count

\* Company B with two vacancies comes before company A with none, which was
\* stored first.
C17_Witness ==
    /\ last_op.op = "get_companies_and_vacancies_count"
    /\ last_op.rows = <<[name |-> <<"B">>, vacancy_count |-> 2],
                        [name |-> <<"A">>, vacancy_count |-> 0]>>
    /\ companies[1].name.s = <<"A">>

\* C18: get_all_vacancies returns one row per stored vacancy, none missing
\* and none repeated, each with the name of the company that owns it,
\* ordered by company name and, within a company name, by vacancy name.
C18_EveryVacancyOnceByNames ==
    last_op.op = "get_all_vacancies" /\ last_op.err = "none" =>
        /\ Showings(last_op.rows, 1..Len(vacancies)) # {}
        /\ \A a, b \in 1..Len(last_op.rows) :
              a < b =>
                 IF last_op.rows[a].company_name # last_op.rows[b].company_name
                 THEN LexLeq(last_op.rows[a].company_name, last_op.rows[b].company_name)
                 ELSE LexLeq(last_op.rows[a].vacancy_name, last_op.rows[b].vacancy_name)

\* Three vacancies of two companies, shown in another order than stored.
C18_Witness ==
    /\ last_op.op = "get_all_vacancies" /\ Len(last_op.rows) = 3
    /\ last_op.rows[1].company_name = <<"A">> /\ last_op.rows[1].vacancy_name = <<"Q", "A">>
    /\ last_op.rows[2].company_name = <<"A">>
    /\ last_op.rows[2].vacancy_name = <<"d", "e", "v">>
    /\ last_op.rows[3].company_name = <<"B">>
    /\ vacancies[1].name.s = <<"D", "e", "v">>

C7_EveryIdentifierAttempted ==
    /\ ld_pc \in {"done", "crashed"} =>
          [j \in 1..Len(info_log) |-> info_log[j].id] = COMPANIES_IDS
    /\ \A j \in 1..Len(info_log) :
          ~info_log[j].ok => \A e \in events : e[2] # info_log[j].idx

\* C13 (Spec): no data-shape, network or database failure in a menu option
\* terminates main's menu loop: no run of option 1 is left by an exception,
\* so main is never left other than through option 0.
C13_MenuLoopNotTerminated == ld_pc # "crashed"

C23_AddedCountsCleanInserts ==
    /\ [](ld_pc = "insert_vacancy" =>
             /\ added_count = ok_inserts
             /\ new_rows <= added_count
             /\ added_count <= ld_k - 1)
    /\ [](last_call.op = "insert_vacancy" => (last_call.ret <=> last_call.err = "none"))
    /\ [][ld_pc = "insert_vacancy" /\ ld_k' = ld_k + 1 /\ last_call'.err = "none" =>
             /\ last_call'.ret
             /\ added_count' = added_count + 1
             /\ IF HasVacancy(vacancies, ld_vacancies[ld_k].vacancy_id)
                THEN vacancies' = vacancies /\ new_rows' = new_rows
                ELSE vacancies' = Append(vacancies, ld_vacancies[ld_k])
                     /\ new_rows' = new_rows + 1]_vars

\* The run is about to report 2 added vacancies for the second identifier
\* although their inserts added no row: both ids were stored already.
C23_Witness ==
    /\ ld_pc = "insert_vacancy" /\ ld_idx = 2 /\ ld_k > Len(ld_vacancies)
    /\ Len(ld_vacancies) = 2
    /\ added_count = 2 /\ new_rows = 0

(***************************************************************************)
(* Claims about the API getters (checked under SpecApi).                   *)
(***************************************************************************)
\* C14: get_employer_vacancies, get_employer_info and get_vacancy_details
\* return their absence value on a network error, a non-2xx status or a
\* timeout, and the payload of the JSON response otherwise; none of these
\* failures is raised to the caller, and whatever the outcome the call has
\* sent one request only.
C14_FailureIsAbsence ==
    api_call.op # "none" =>
        /\ api_call.requests = 1
        /\ api_call.outcome \in HttpFailures =>
              api_call.ret.k = "null" /\ api_call.exc = "none"
        /\ api_call.outcome = "ok" =>
              api_call.ret = api_call.sent /\ api_call.ret.k = "obj" /\ api_call.exc = "none"

C14_Witness ==
    /\ api_call.op = "get_vacancy_details" /\ api_call.outcome = "http_error"
    /\ api_call.ret = DetailsFailed /\ api_call.exc = "none" /\ api_call.requests = 1

(***************************************************************************)
(* Claims about the filters (checked under SpecFilter).                    *)
(***************************************************************************)
\* What C19 says of one record and the requested floor lo and ceiling hi.
InRange(v, lo, hi) ==
    /\ v.salary_from.k = "int" \/ v.salary_to.k = "int"
    /\ lo.k = "null" \/ (v.salary_to.k = "int" /\ v.salary_to.i >= lo.i)
    /\ hi.k = "null" \/ (v.salary_from.k = "int" /\ v.salary_from.i <= hi.i)

\* C19: filter_by_salary_range(records, lo, hi) keeps a record if and only
\* if it has at least one salary bound, and lo is absent or its upper bound
\* is present and not below lo, and hi is absent or its lower bound is
\* present and not above hi; the kept records appear in input order.
C19_RangeOverlap ==
    filter_call.op = "filter_by_salary_range" =>
        LET Keep(v) == InRange(v, filter_call.salary_from, filter_call.salary_to)
        IN  /\ filter_call.exc = "none"
            /\ filter_call.ret = SelectSeq(filter_call.vacancies, Keep)

\* Floor 2 and no ceiling: the record with only salary_from = 3 is left out,
\* the one with only salary_to = 2 is kept.
C19_Witness ==
    /\ filter_call.op = "filter_by_salary_range"
    /\ filter_call.salary_from = IntV(2) /\ filter_call.salary_to = None
    /\ Len(filter_call.vacancies) = 3
    /\ filter_call.vacancies[1].salary_from = IntV(3)
    /\ filter_call.vacancies[1].salary_to = None
    /\ filter_call.vacancies[2].salary_from = None
    /\ filter_call.vacancies[2].salary_to = IntV(2)
    /\ filter_call.ret = <<filter_call.vacancies[2], filter_call.vacancies[3]>>

\* C20: filter_by_keyword(records, keyword) returns exactly the records
\* whose name contains the keyword as a substring when letter case is
\* ignored, in their original relative order, and leaves the input list as
\* it was.
C20_KeywordSubsequence ==
    filter_call.op = "filter_by_keyword" =>
        LET Keep(v) ==
                /\ v.name.k = "str"
                /\ Contains(LowerStr(v.name.s), LowerStr(filter_call.keyword))
        IN  /\ filter_call.exc = "none"
            /\ filter_call.ret = SelectSeq(filter_call.vacancies, Keep)
            /\ filter_call.after = filter_call.vacancies

(***************************************************************************)
(* Claims about the normalizer (checked under SpecParse).                  *)
(***************************************************************************)
\* What the interface says about identifiers, stated on the raw value: an
\* identifier is usable when it is an integer or a string of decimal digits.
IsNumeric(v) ==
    \/ v.k = "int"
    \/ v.k = "str" /\ v.s # <<>> /\ \A j \in 1..Len(v.s) : v.s[j] \in Digits

IdentifierBad(raw) ==
    \/ ~IsNumeric(raw.id)
    \/ raw.employer.k # "obj"
    \/ ~IsNumeric(raw.employer.f)

NestingMissing(nest) == nest.k \in {"absent", "null"}

\* The records of the items parse_from_api accepts, in input order.
RECURSIVE NormalizedOf(_)
NormalizedOf(list) ==
    IF list = <<>> THEN <<>>
    ELSE LET r == parse_from_api(Head(list))
         IN  IF r.exc = "none" THEN <<r.vacancy>> \o NormalizedOf(Tail(list))
             ELSE NormalizedOf(Tail(list))

\* C8: extract_vacancies never fails on a list of raw vacancy objects; every
\* item whose normalization fails, for whatever reason, is skipped, and the
\* output is the normalized records of the other items in input order.
C8_ExtractNeverFails ==
    extracted.called =>
        /\ extracted.exc = "none"
        /\ extracted.vacancies = NormalizedOf(raw_list)

\* C9: parse_from_api fails only when the vacancy identifier or the employer
\* identifier is missing or non-numeric; a missing salary, area, experience
\* or employment nesting is normalized without failure, the fields read from
\* it being absent.
C9_FailsOnlyOnIdentifiers ==
    parsed.called =>
        LET raw == raw_list[parsed.item]
            v == parsed.vacancy
        IN  /\ parsed.exc # "none" => IdentifierBad(raw)
            /\ ~IdentifierBad(raw) => parsed.exc = "none"
            /\ parsed.exc = "none" =>
                /\ NestingMissing(raw.salary) =>
                      v.salary_from = None /\ v.salary_to = None /\ v.currency = None
                /\ NestingMissing(raw.area) => v.area = None
                /\ NestingMissing(raw.experience) => v.experience = None
                /\ NestingMissing(raw.employment) => v.employment_type = None

\* The value a record field takes from an API member: the member's value, or
\* the default when the API gave none.
ProvidedOr(member, default) == IF member.k = "absent" THEN default ELSE member

MemberOf(nest) == IF nest.k = "obj" THEN nest.f ELSE Absent

WellFormedRecord(raw, v) ==
    /\ v.vacancy_id \in Int /\ v.company_id \in Int
    /\ v.name.k = "str"
    /\ v.salary_from = ProvidedOr(IF raw.salary.k = "obj" THEN raw.salary.from ELSE Absent, None)
    /\ v.salary_to = ProvidedOr(IF raw.salary.k = "obj" THEN raw.salary.to ELSE Absent, None)
    /\ v.currency = ProvidedOr(IF raw.salary.k = "obj" THEN raw.salary.currency ELSE Absent, None)
    /\ v.area = ProvidedOr(MemberOf(raw.area), None)
    /\ v.experience = ProvidedOr(MemberOf(raw.experience), None)
    /\ v.employment_type = ProvidedOr(MemberOf(raw.employment), None)
    /\ v.description = ProvidedOr(raw.description, StrV(<<>>))
    /\ v.url = ProvidedOr(raw.alternate_url, None)
    /\ v.published_at = ProvidedOr(raw.published_at, None)

\* C10: every record parse_from_api returns (and so every record of
\* extract_vacancies' output) has integer vacancy_id and company_id and a
\* string name; every other field is the API's value or its default (the
\* empty string for description, absence for the others).
C10_RecordWellFormed ==
    /\ parsed.called /\ parsed.exc = "none" =>
          WellFormedRecord(raw_list[parsed.item], parsed.vacancy)
    /\ extracted.called /\ extracted.exc = "none" =>
          \A j \in 1..Len(extracted.vacancies) : extracted.vacancies[j].name.k = "str"

(***************************************************************************)
(* Claims about the page loop (checked under SpecPages).                   *)
(***************************************************************************)
\* The items of the successful responses of a log, in request order.
RECURSIVE ConcatItems(_)
ConcatItems(log) ==
    IF log = <<>> THEN <<>>
    ELSE LET data == Head(log).data
         IN  (IF data.k = "obj" /\ data.items.k = "list" THEN data.items.l ELSE <<>>)
             \o ConcatItems(Tail(log))

\* Every request so far succeeded and reported pages = N.
AllSucceededWith(N) ==
    \A j \in 1..Len(page_log) :
        page_log[j].data.k = "obj" /\ page_log[j].data.pages = IntV(N)

\* C3: when every page request succeeds and the server reports pages = N
\* (N >= 1), the call issues exactly N requests, for pages 0, 1, ..., N-1 in
\* that order, and returns the concatenation of the pages' items in page order.
C3_AllPagesInOrder ==
    \A N \in 1..MaxPages :
        AllSucceededWith(N) =>
            /\ Len(page_log) <= N
            /\ gav_pc = "returned" <=> Len(page_log) = N
            /\ \A j \in 1..Len(page_log) : page_log[j].page = j - 1
            /\ gav_pc = "returned" => all_vacancies = ConcatItems(page_log)

C3_Witness ==
    /\ gav_pc = "returned"
    /\ AllSucceededWith(3)
    /\ Len(page_log) = 3
    /\ all_vacancies = <<ItemA, ItemB, ItemA, ItemA>>

\* C4: if the request for page k fails, no further request is issued, the
\* failed page is not retried, and the result is exactly the concatenated
\* items of pages 0..k-1 (the empty list when the first request fails).
C4_StopsAtFailedPage ==
    \A j \in 1..Len(page_log) :
        page_log[j].data.k = "null" =>
            /\ j = Len(page_log)
            /\ gav_pc = "returned"
            /\ \A h \in 1..j : page_log[h].page = h - 1
            /\ all_vacancies = ConcatItems(SubSeq(page_log, 1, j - 1))
            /\ j = 1 => all_vacancies = <<>>

C4_Witness ==
    /\ gav_pc = "returned"
    /\ Len(page_log) = 3
    /\ page_log[3].data = RequestFailed
    /\ Len(all_vacancies) = 3

\* Every successful response of the call so far reported pages <= P.
ReportedAtMost(P) ==
    \A j \in 1..Len(page_log) :
        page_log[j].data.k # "null" => PagesOf(page_log[j].data) <= P

\* C22 (SpecPagesFair): get_all_vacancies_for_employer terminates when the
\* reported pages value is bounded: if every successful response reports
\* pages <= P the call issues at most max(1, P) requests; the requested
\* pages are 0, 1, 2, ... in strictly increasing order, none twice; a
\* response with pages absent or at most 0 is the last one, and it is the
\* only one when it answers the first request; the call returns.
C22_BoundedPagesTerminate ==
    /\ [](\A P \in -1..MaxPages :
             ReportedAtMost(P) => Len(page_log) <= (IF P > 1 THEN P ELSE 1))
    /\ [](\A j \in 1..Len(page_log) : page_log[j].page = j - 1)
    /\ [](\A j \in 1..Len(page_log) :
             page_log[j].data.k # "null" /\ PagesOf(page_log[j].data) <= 0 =>
                 j = Len(page_log) /\ gav_pc = "returned")
    /\ [](gav_pc = "loop" => page = Len(page_log))
    /\ <>(gav_pc = "returned")

\* The server reported 3 pages, then 2, then none: three requests, with
\* the third response ending the loop.
C22_Witness ==
    /\ gav_pc = "returned"
    /\ Len(page_log) = 3
    /\ page_log[1].data.pages = IntV(3)
    /\ page_log[2].data.pages = IntV(3)
    /\ page_log[3].data.pages = Absent /\ page_log[3].data.k = "obj"

=============================================================================
